---------------------------- MODULE Spec2Model ----------------------------
(***************************************************************************)
(* humanize-ai-detector (src/humanize.js): the pattern catalog, the        *)
(* matcher analyzeText, the scorer calculateScore / getScoreLabel, the     *)
(* report's ordering, and the command line process main / getInput.        *)
(*                                                                         *)
(* A text is a sequence of tokens.  A token is a maximal run of word       *)
(* characters (a word), one whitespace character "_", or one punctuation   *)
(* character (a hyphen, an em dash).  The regular expressions of the       *)
(* catalog are sequences of token classes, \s+ being a greedy run of "_",  *)
(* and \b a test on the neighbouring token.  Offsets are UTF-16 offsets,   *)
(* computed from the tokens' lengths.  JavaScript numbers are modelled by  *)
(* exact rationals extended with NaN and Infinity.                         *)
(***************************************************************************)
EXTENDS Integers, Sequences, FiniteSets, TLC

VARIABLES
    text,           \* analyzeText's argument (API use), or main's `text`
    analysis,       \* the object analyzeText returned last
    prevAnalysis,   \* what the preceding analyzeText call on this text returned
    calls,          \* the analyzeText calls so far: "text" or "other" each
    score,          \* calculateScore's result
    prevScore,      \* the score of prevAnalysis, when the caller computed it
    label,          \* getScoreLabel's result
    report,         \* formatAnalysis's result
    lastIndex,      \* the lastIndex property of every RegExp object of PATTERNS
    args,           \* process.argv.slice(2)
    fsys,           \* the file system: the readable files, by path
    stdinPlan,      \* what standard input delivers: its chunks, and whether it ends
    arrived,        \* number of 'data' events so far
    ended,          \* the 'end' event has happened
    data,           \* getInput's `data`
    timer,          \* getInput's setTimeout: "idle", "armed" or "fired"
    pc,             \* main: "start", "awaitStdin", "done" (returned), "exited"
    stdout,         \* what console.log wrote
    stderr,         \* what console.error wrote
    exitCode        \* the exit code, once the process has ended

apiVars == <<text, analysis, prevAnalysis, calls, score, prevScore, label, report, lastIndex>>

cliVars == <<args, fsys, stdinPlan, arrived, ended, data, timer, pc, stdout, stderr, exitCode>>

vars == <<apiVars, cliVars>>

-----------------------------------------------------------------------------
(* Bounds of the model.                                                    *)

MaxLen == 5

MaxRepeatLen == 3

MaxRuns == 3

MaxArgs == 2

MaxChunks == 2

MaxWeight == 12

MaxWords == 30

-----------------------------------------------------------------------------
(* Tokens.                                                                 *)

Space == "_"

\* The em dash character (one UTF-16 code unit).
EmDash == "U+2014"

NonWordToks == {Space, "-", EmDash}

IsWord(tok) == tok \notin NonWordToks

\* A text of whitespace only: text.trim().length === 0.
IsBlank(t) == \A i \in 1..Len(t) : t[i] = Space

\* The tokens input texts are built from.
Alphabet == {"vibrant", "delve", "into", "intricate", "offers", "a", Space, "-"}

\* Number of UTF-16 code units of a token.
TokLen(tok) == IF tok \in {Space, EmDash} THEN 1 ELSE Len(tok)

RECURSIVE Offset(_, _)
\* The offset in the string of the token at position i (positions from 1).
Offset(t, i) == IF i <= 1 THEN 0 ELSE Offset(t, i - 1) + TokLen(t[i - 1])

\* No two adjacent words: a word token is a maximal run of word characters.
WellFormed(t) == \A i \in 1..(Len(t) - 1) : ~(IsWord(t[i]) /\ IsWord(t[i + 1]))

TextsOfLen(n) == {t \in [1..n -> Alphabet] : WellFormed(t)}

Texts == UNION {TextsOfLen(n) : n \in 0..MaxLen}

-----------------------------------------------------------------------------
(* The pattern catalog.  The categories modelled are four of the thirteen, *)
(* in their order of declaration, with the rules whose words belong to the *)
(* alphabet; every other rule finds nothing in a text over the alphabet.   *)

\* One token out of a set.
One(S) == [toks |-> S, plus |-> FALSE]

\* \s+ : one or more whitespace characters.
Ws == [toks |-> {Space}, plus |-> TRUE]

\* /\b ... \b/g : a rule anchored by word boundaries on both sides.
Bounded(es) == [elems |-> es, wordStart |-> TRUE, wordEnd |-> TRUE]

\* / ... /g : a rule with no anchor.
Plain(es) == [elems |-> es, wordStart |-> FALSE, wordEnd |-> FALSE]

PATTERNS ==
    << [key |-> "promotional", name |-> "Promotional Language", weight |-> 3,
        patterns |-> << Bounded(<<One({"boast", "boasts"}), Ws, One({"a"})>>),
                        Bounded(<<One({"vibrant"})>>) >>],
       [key |-> "ai_vocabulary", name |-> "AI Vocabulary", weight |-> 2,
        patterns |-> << Bounded(<<One({"delve"})>>),
                        Bounded(<<One({"intricate", "intricates", "intricaties"})>>),
                        Bounded(<<One({"delve"}), Ws, One({"into"})>>),
                        Bounded(<<One({"intricate"})>>) >>],
       [key |-> "em_dash", name |-> "Em Dash Overuse", weight |-> 1,
        patterns |-> << Plain(<<One({EmDash})>>),
                        Plain(<<One({"-"}), One({"-"})>>) >>],
       [key |-> "copula_avoidance", name |-> "Copula Avoidance", weight |-> 2,
        patterns |-> << Bounded(<<One({"offer", "offers"}), Ws, One({"a", "an", "the"})>>) >>] >>

\* The RegExp objects of the catalog: <<category, rule>>.
RuleIds == UNION {{<<c, r>> : r \in 1..Len(PATTERNS[c].patterns)} : c \in 1..Len(PATTERNS)}

\* Every RegExp literal is created with lastIndex 0.
FreshLastIndex == [id \in RuleIds |-> 0]

-----------------------------------------------------------------------------
(* Matching.                                                               *)

RECURSIVE RunEnd(_, _, _)
\* The position after the run of tokens of S that starts at position i.
RunEnd(S, t, i) == IF i <= Len(t) /\ t[i] \in S THEN RunEnd(S, t, i + 1) ELSE i

RECURSIVE MatchFrom(_, _, _, _)
\* The position after the match of the elements k.. at position i; 0: no match.
\* A run is taken whole: the element after \s+ is never a whitespace.
MatchFrom(es, k, t, i) ==
    IF k > Len(es) THEN i
    ELSE IF i > Len(t) \/ t[i] \notin es[k].toks THEN 0
    ELSE IF es[k].plus THEN MatchFrom(es, k + 1, t, RunEnd(es[k].toks, t, i))
    ELSE MatchFrom(es, k + 1, t, i + 1)

\* \b : exactly one of the two neighbours is a word character.
BoundaryBefore(t, i) == i <= Len(t) /\ IsWord(t[i]) /\ (i = 1 \/ ~IsWord(t[i - 1]))

BoundaryAfter(t, e) == e > 1 /\ IsWord(t[e - 1]) /\ (e > Len(t) \/ ~IsWord(t[e]))

\* The position after the rule's match at position i; 0: no match there.
RuleMatchEnd(rule, t, i) ==
    IF rule.wordStart /\ ~BoundaryBefore(t, i) THEN 0
    ELSE LET e == MatchFrom(rule.elems, 1, t, i)
         IN  IF e = 0 THEN 0
             ELSE IF rule.wordEnd /\ ~BoundaryAfter(t, e) THEN 0
             ELSE e

contextSize == 40

\* Length of the string.
TextLen(t) == Offset(t, Len(t) + 1)

\* The window text.slice(start, end) and the two ellipsis marks around it.
getContext(t, index, matchLength) ==
    LET start == IF index - contextSize > 0 THEN index - contextSize ELSE 0
        end == IF index + matchLength + contextSize < TextLen(t)
               THEN index + matchLength + contextSize ELSE TextLen(t)
    IN  [start |-> start, end |-> end, leading |-> start > 0, trailing |-> end < TextLen(t)]

RECURSIVE ExecLoop(_, _, _, _)
\* The iterator of String.prototype.matchAll: the matcher's successive exec
\* calls, each searching from the end of the preceding match, until one fails.
ExecLoop(rule, t, i, from) ==
    IF i > Len(t) THEN <<>>
    ELSE IF Offset(t, i) < from THEN ExecLoop(rule, t, i + 1, from)
    ELSE LET e == RuleMatchEnd(rule, t, i)
         IN  IF e = 0 THEN ExecLoop(rule, t, i + 1, from)
             ELSE <<[text |-> SubSeq(t, i, e - 1),
                     index |-> Offset(t, i),
                     context |-> getContext(t, Offset(t, i), Offset(t, e) - Offset(t, i))]>>
                  \o ExecLoop(rule, t, e, from)

\* text.matchAll(pattern): the matcher is a copy of the pattern that starts at
\* the pattern's lastIndex.
matchAll(t, rule, li) == ExecLoop(rule, t, 1, li)

\* A matcher that is the pattern itself and is abandoned after its first match.
LastIndexAfterShared(t, rule, li) ==
    LET ms == matchAll(t, rule, li)
    IN  IF ms = <<>> THEN 0 ELSE ms[1].index + 1

\* The pattern's lastIndex after text.matchAll(pattern) was iterated: the
\* iteration advances the copy, the pattern itself is not written.
LastIndexAfter(t, rule, li) == li

-----------------------------------------------------------------------------
(* analyzeText.                                                            *)

RECURSIVE SplitWs(_, _, _)
\* text.split(/\s+/): the pieces between the whitespace runs, the empty pieces
\* at the two ends included; piece is the piece being collected at position i.
SplitWs(t, i, piece) ==
    IF i > Len(t) THEN <<piece>>
    ELSE IF t[i] = Space THEN <<piece>> \o SplitWs(t, RunEnd({Space}, t, i), <<>>)
    ELSE SplitWs(t, i + 1, Append(piece, t[i]))

\* .filter(w => w.length > 0).length
wordCount(t) == Len(SelectSeq(SplitWs(t, 1, <<>>), LAMBDA w : Len(w) > 0))

RECURSIVE RuleLoopDedup(_, _, _, _)
\* An inner loop that skips a match an earlier rule of the category has found.
RuleLoopDedup(t, li, c, r) ==
    IF r > Len(PATTERNS[c].patterns) THEN <<>>
    ELSE LET own == matchAll(t, PATTERNS[c].patterns[r], li[<<c, r>>])
         IN  own \o SelectSeq(RuleLoopDedup(t, li, c, r + 1),
                              LAMBDA m : \A k \in 1..Len(own) : own[k] # m)

RECURSIVE RuleLoop(_, _, _, _)
\* The inner loop: categoryMatches after the rules r.. of category c.
RuleLoop(t, li, c, r) ==
    IF r > Len(PATTERNS[c].patterns) THEN <<>>
    ELSE matchAll(t, PATTERNS[c].patterns[r], li[<<c, r>>]) \o RuleLoop(t, li, c, r + 1)

\* results.matches.push(...categoryMatches.map(m => ({...m, category: name})))
Tagged(ms, name) ==
    [k \in 1..Len(ms) |-> [text |-> ms[k].text, index |-> ms[k].index,
                           context |-> ms[k].context, category |-> name]]

\* A body without the test categoryMatches.length > 0.
CategoryStepAlways(results, t, li, c) ==
    LET category == PATTERNS[c]
        categoryMatches == RuleLoop(t, li, c, 1)
    IN  [patterns |-> Append(results.patterns,
                             [key |-> category.key,
                              name |-> category.name,
                              matches |-> categoryMatches,
                              weight |-> category.weight,
                              count |-> Len(categoryMatches)]),
         matches |-> results.matches \o Tagged(categoryMatches, category.name),
         totalWeight |-> results.totalWeight + category.weight * Len(categoryMatches),
         wordCount |-> results.wordCount]

\* A body that adds the count to totalWeight without the category's weight.
CategoryStepUnweighted(results, t, li, c) ==
    LET category == PATTERNS[c]
        categoryMatches == RuleLoop(t, li, c, 1)
    IN  IF Len(categoryMatches) > 0
        THEN [patterns |-> Append(results.patterns,
                                  [key |-> category.key,
                                   name |-> category.name,
                                   matches |-> categoryMatches,
                                   weight |-> category.weight,
                                   count |-> Len(categoryMatches)]),
              matches |-> results.matches \o Tagged(categoryMatches, category.name),
              totalWeight |-> results.totalWeight + Len(categoryMatches),
              wordCount |-> results.wordCount]
        ELSE results

\* The body of the outer loop for category c.
CategoryStep(results, t, li, c) ==
    LET category == PATTERNS[c]
        categoryMatches == RuleLoop(t, li, c, 1)
    IN  IF Len(categoryMatches) > 0
        THEN [patterns |-> Append(results.patterns,
                                  [key |-> category.key,
                                   name |-> category.name,
                                   matches |-> categoryMatches,
                                   weight |-> category.weight,
                                   count |-> Len(categoryMatches)]),
              matches |-> results.matches \o Tagged(categoryMatches, category.name),
              totalWeight |-> results.totalWeight + category.weight * Len(categoryMatches),
              wordCount |-> results.wordCount]
        ELSE results

RECURSIVE CategoryLoop(_, _, _, _)
CategoryLoop(results, t, li, c) ==
    IF c > Len(PATTERNS) THEN results
    ELSE CategoryLoop(CategoryStep(results, t, li, c), t, li, c + 1)

\* results.patterns is the sequence of Object.entries(results.patterns): an
\* object lists its string keys in the order they were added.
analyzeText(t, li) ==
    CategoryLoop([patterns |-> <<>>, matches |-> <<>>, totalWeight |-> 0,
                  wordCount |-> wordCount(t)], t, li, 1)

-----------------------------------------------------------------------------
(* JavaScript numbers: a rational n/d, NaN, or Infinity.                   *)

Num(n, d) == [kind |-> "num", n |-> n, d |-> d]

NaN == [kind |-> "NaN", n |-> 0, d |-> 1]

Infinity == [kind |-> "Infinity", n |-> 0, d |-> 1]

\* a / b for integers a >= 0 and b >= 0.
JsDiv(a, b) ==
    IF b = 0 THEN (IF a = 0 THEN NaN ELSE Infinity) ELSE Num(a, b)

\* x * k for an integer k > 0.
JsMul(x, k) == IF x.kind = "num" THEN Num(x.n * k, x.d) ELSE x

\* Math.round(x): the nearest integer, a half rounds up.
MathRound(x) == IF x.kind = "num" THEN Num((2 * x.n + x.d) \div (2 * x.d), 1) ELSE x

\* Math.min(k, x) for an integer k and an integer, NaN or Infinity x.
MathMin(k, x) ==
    IF x.kind = "NaN" THEN NaN
    ELSE IF x.kind = "Infinity" THEN Num(k, 1)
    ELSE IF x.n < k THEN x ELSE Num(k, 1)

\* x <= k: false when x is NaN.
JsLe(x, k) == x.kind = "num" /\ x.n <= k * x.d

-----------------------------------------------------------------------------
(* The scorer.                                                             *)

\* The two operands of the division exchanged.
calculateScoreSwapped(a) ==
    LET weightPerHundredWords == JsMul(JsDiv(a.wordCount, a.totalWeight), 100)
    IN  MathMin(100, MathRound(JsMul(weightPerHundredWords, 5)))

calculateScore(a) ==
    LET weightPerHundredWords == JsMul(JsDiv(a.totalWeight, a.wordCount), 100)
    IN  MathMin(100, MathRound(JsMul(weightPerHundredWords, 5)))

\* Cut points compared with < instead of <=.
getScoreLabelStrict(s) ==
    IF JsLe(s, 9) THEN "Very Human"
    ELSE IF JsLe(s, 24) THEN "Mostly Human"
    ELSE IF JsLe(s, 49) THEN "Some AI Patterns"
    ELSE IF JsLe(s, 74) THEN "Likely AI"
    ELSE "Very AI-like"

\* The labels without their leading emoji.
getScoreLabel(s) ==
    IF JsLe(s, 10) THEN "Very Human"
    ELSE IF JsLe(s, 25) THEN "Mostly Human"
    ELSE IF JsLe(s, 50) THEN "Some AI Patterns"
    ELSE IF JsLe(s, 75) THEN "Likely AI"
    ELSE "Very AI-like"

-----------------------------------------------------------------------------
(* The detailed report.                                                    *)

\* weight * count of an entry of analysis.patterns
Impact(p) == p.weight * p.count

\* The comparator of the sort: negative when a goes first.
Compare(a, b) == Impact(b) - Impact(a)

RECURSIVE InsertSortedUnstable(_, _, _)
\* An insertion that puts x in front of the entries it ties with.
InsertSortedUnstable(ps, x, k) ==
    IF k > Len(ps) THEN Append(ps, x)
    ELSE IF Compare(ps[k], x) >= 0
         THEN SubSeq(ps, 1, k - 1) \o <<x>> \o SubSeq(ps, k, Len(ps))
         ELSE InsertSortedUnstable(ps, x, k + 1)

RECURSIVE InsertSorted(_, _, _)
\* x inserted into the sorted ps, from position k on: behind every entry that
\* does not compare as greater than x (Array.prototype.sort is stable).
InsertSorted(ps, x, k) ==
    IF k > Len(ps) THEN Append(ps, x)
    ELSE IF Compare(ps[k], x) > 0
         THEN SubSeq(ps, 1, k - 1) \o <<x>> \o SubSeq(ps, k, Len(ps))
         ELSE InsertSorted(ps, x, k + 1)

RECURSIVE SortFrom(_, _, _)
SortFrom(ps, k, acc) ==
    IF k > Len(ps) THEN acc ELSE SortFrom(ps, k + 1, InsertSorted(acc, ps[k], 1))

\* Object.entries(analysis.patterns).sort((a, b) => b.weight*b.count - a.weight*a.count)
sortedPatterns(a) == SortFrom(a.patterns, 1, <<>>)

\* One category of the report: its heading, up to 3 examples, the rest counted.
Section(p) ==
    [key |-> p.key, name |-> p.name, count |-> p.count, weight |-> p.weight,
     examples |-> SubSeq(p.matches, 1, IF Len(p.matches) < 3 THEN Len(p.matches) ELSE 3),
     more |-> IF Len(p.matches) > 3 THEN Len(p.matches) - 3 ELSE 0]

formatAnalysis(a) ==
    LET s == calculateScore(a)
        sorted == sortedPatterns(a)
    IN  [kind |-> "report", score |-> s, label |-> getScoreLabel(s),
         wordCount |-> a.wordCount, patternsFound |-> Len(a.matches),
         sections |-> [k \in 1..Len(sorted) |-> Section(sorted[k])]]

-----------------------------------------------------------------------------
(* Use of the exported functions (module.exports): a caller analyses a     *)
(* text, scores the result, labels the score and formats the report.  An   *)
(* absent value is the empty sequence (the empty string for the label).    *)

\* Texts a caller analyses between two analyses of `text`.
OtherTexts == { <<"delve">>, <<"-", "-", "-", "-">>, <<"intricate", Space, "vibrant">> }

\* The lastIndex of every pattern after analyzeText(t).
LastIndexAfterAnalysis(t, li) ==
    [id \in RuleIds |-> LastIndexAfter(t, PATTERNS[id[1]].patterns[id[2]], li[id])]

\* The command line process plays no part in the use of the exported functions.
NoProcess ==
    /\ args = <<>>
    /\ fsys = [files |-> <<>>]
    /\ stdinPlan = [chunks |-> <<>>, ends |-> FALSE]
    /\ arrived = 0
    /\ ended = FALSE
    /\ data = <<>>
    /\ timer = "idle"
    /\ pc = "idle"
    /\ stdout = <<>>
    /\ stderr = <<>>
    /\ exitCode = <<>>

Init ==
    /\ NoProcess
    /\ text \in Texts
    /\ analysis = <<>>
    /\ prevAnalysis = <<>>
    /\ calls = <<>>
    /\ score = <<>>
    /\ prevScore = <<>>
    /\ label = ""
    /\ report = <<>>
    /\ lastIndex = FreshLastIndex

\* analysis = analyzeText(text)
AnalyzeText ==
    /\ Len(calls) < MaxRuns
    /\ analysis' = <<analyzeText(text, lastIndex)>>
    /\ prevAnalysis' = analysis
    /\ lastIndex' = LastIndexAfterAnalysis(text, lastIndex)
    /\ calls' = Append(calls, "text")
    /\ score' = <<>>
    /\ prevScore' = score
    /\ label' = ""
    /\ report' = <<>>
    /\ UNCHANGED <<text, cliVars>>

\* analyzeText(u) for another text, its result dropped.
AnalyzeOther(u) ==
    /\ Len(calls) < MaxRuns
    /\ lastIndex' = LastIndexAfterAnalysis(u, lastIndex)
    /\ calls' = Append(calls, "other")
    /\ UNCHANGED <<text, analysis, prevAnalysis, score, prevScore, label, report, cliVars>>

\* score = calculateScore(analysis)
CalculateScore ==
    /\ analysis # <<>>
    /\ score = <<>>
    /\ score' = <<calculateScore(analysis[1])>>
    /\ UNCHANGED <<text, analysis, prevAnalysis, calls, prevScore, label, report, lastIndex, cliVars>>

\* label = getScoreLabel(score)
GetScoreLabel ==
    /\ score # <<>>
    /\ label = ""
    /\ label' = getScoreLabel(score[1])
    /\ UNCHANGED <<text, analysis, prevAnalysis, calls, score, prevScore, report, lastIndex, cliVars>>

\* report = formatAnalysis(analysis)
FormatAnalysis ==
    /\ analysis # <<>>
    /\ report = <<>>
    /\ report' = <<formatAnalysis(analysis[1])>>
    /\ UNCHANGED <<text, analysis, prevAnalysis, calls, score, prevScore, label, lastIndex, cliVars>>

\* One analysis of each text, then its score, label and report.
Next ==
    \/ (analysis = <<>> /\ AnalyzeText)
    \/ CalculateScore
    \/ GetScoreLabel
    \/ FormatAnalysis

Spec == Init /\ [][Next]_vars

\* Repeated analyses of a text, analyses of other texts in between.
NextRepeat ==
    \/ AnalyzeText
    \/ \E u \in OtherTexts : AnalyzeOther(u)

InitRepeat == Init /\ Len(text) <= MaxRepeatLen

SpecRepeat == InitRepeat /\ [][NextRepeat]_vars

\* An analysis result as calculateScore reads it: two numbers.
ScoreInputs ==
    {[patterns |-> <<>>, matches |-> <<>>, totalWeight |-> w, wordCount |-> n] :
        w \in 0..MaxWeight, n \in 0..MaxWords}

\* calculateScore on any result, getScoreLabel on its score or on any integer score.
InitScore ==
    /\ NoProcess
    /\ text = <<>>
    /\ prevAnalysis = <<>>
    /\ calls = <<>>
    /\ prevScore = <<>>
    /\ label = ""
    /\ report = <<>>
    /\ lastIndex = FreshLastIndex
    /\ \/ analysis \in {<<a>> : a \in ScoreInputs} /\ score = <<>>
       \/ analysis = <<>> /\ score \in {<<Num(s, 1)>> : s \in 0..100}

\* A second result with the same wordCount and no fewer weighted matches, scored.
ScoreMoreMatches(w) ==
    /\ analysis # <<>>
    /\ score # <<>>
    /\ w >= analysis[1].totalWeight
    /\ prevAnalysis' = analysis
    /\ prevScore' = score
    /\ analysis' = <<[analysis[1] EXCEPT !.totalWeight = w]>>
    /\ score' = <<calculateScore(analysis'[1])>>
    /\ label' = ""
    /\ UNCHANGED <<text, calls, report, lastIndex, cliVars>>

NextScore ==
    \/ CalculateScore
    \/ GetScoreLabel
    \/ \E w \in 0..MaxWeight : ScoreMoreMatches(w)

SpecScore == InitScore /\ [][NextScore]_vars

-----------------------------------------------------------------------------
(* Properties of the exported functions.                                   *)

\* C1: an empty or whitespace-only text, analysed, scored and labelled, has
\* wordCount 0, no match, score 0 and the label "Very Human".
C1_BlankTextScoresZero ==
    (IsBlank(text) /\ analysis # <<>> /\ score # <<>> /\ label # "")
        => /\ analysis[1].wordCount = 0
           /\ analysis[1].matches = <<>>
           /\ score[1] = Num(0, 1)
           /\ label = "Very Human"

\* C2: the score of every analysed text is an integer from 0 to 100.
C2_ScoreInRange ==
    (analysis # <<>> /\ score # <<>>)
        => /\ score[1].kind = "num"
           /\ score[1].d = 1
           /\ score[1].n \in 0..100

\* The band of the score table that holds the integer s.
Band(s) ==
    IF s \in 0..10 THEN "Very Human"
    ELSE IF s \in 11..25 THEN "Mostly Human"
    ELSE IF s \in 26..50 THEN "Some AI Patterns"
    ELSE IF s \in 51..75 THEN "Likely AI"
    ELSE "Very AI-like"

\* C3: the label of an integer score from 0 to 100 is the band of the table
\* that holds it: 0..10, 11..25, 26..50, 51..75, 76..100.
C3_LabelBands ==
    (label # "" /\ score[1].kind = "num" /\ score[1].d = 1 /\ score[1].n \in 0..100)
        => label = Band(score[1].n)

\* A score at a cut point, labelled with the lower band.
C3_Witness ==
    /\ score = <<Num(50, 1)>>
    /\ label = "Some AI Patterns"

\* Some rule of category c has an occurrence somewhere in t.
SomeRuleMatches(c, t) ==
    \E r \in 1..Len(PATTERNS[c].patterns) : \E i \in 1..Len(t) :
        RuleMatchEnd(PATTERNS[c].patterns[r], t, i) # 0

\* The keys of the breakdown.
PresentKeys(a) == {a.patterns[k].key : k \in 1..Len(a.patterns)}

\* C4: a category's key is in the breakdown exactly when one of its rules
\* matches the text, a category of the breakdown has count >= 1, and a text
\* no rule matches has an empty breakdown.
C4_CategoryPresence ==
    analysis # <<>>
        => /\ \A c \in 1..Len(PATTERNS) :
                (PATTERNS[c].key \in PresentKeys(analysis[1])) <=> SomeRuleMatches(c, text)
           /\ \A k \in 1..Len(analysis[1].patterns) : analysis[1].patterns[k].count >= 1
           /\ (\A c \in 1..Len(PATTERNS) : ~SomeRuleMatches(c, text))
                => analysis[1].patterns = <<>>

\* A text that two categories match and two do not.
C4_Witness ==
    /\ analysis # <<>>
    /\ PresentKeys(analysis[1]) = {"ai_vocabulary", "em_dash"}
    /\ SomeRuleMatches(2, text) /\ ~SomeRuleMatches(1, text)

\* round(min(100, max(0, 500 * w / max(n, 1)))), a half rounding up.
ExpectedScore(w, n) ==
    LET m == IF n > 1 THEN n ELSE 1
    IN  IF 500 * w >= 100 * m THEN 100
        ELSE IF w <= 0 THEN 0
        ELSE (1000 * w + m) \div (2 * m)

\* C5: the score of a result with totalWeight W >= 0 and wordCount N >= 0 is
\* 500 * W / max(N, 1) rounded to the nearest integer and capped to 0..100.
C5_ScoreFormula ==
    (analysis # <<>> /\ score # <<>>)
        => score[1] = Num(ExpectedScore(analysis[1].totalWeight, analysis[1].wordCount), 1)

\* The place of a category in the catalog.
CatalogIndex(key) == CHOOSE c \in 1..Len(PATTERNS) : PATTERNS[c].key = key

\* C8: the report lists the categories of the result by descending
\* weight * count, and categories of equal weight * count in catalog order.
C8_ReportOrder ==
    report # <<>>
        => LET sec == report[1].sections
           IN  /\ Len(sec) = Len(analysis[1].patterns)
               /\ {sec[k].key : k \in 1..Len(sec)} = PresentKeys(analysis[1])
               /\ \A i, j \in 1..Len(sec) :
                    i < j => /\ sec[i].weight * sec[i].count >= sec[j].weight * sec[j].count
                             /\ (sec[i].weight * sec[i].count = sec[j].weight * sec[j].count)
                                  => CatalogIndex(sec[i].key) < CatalogIndex(sec[j].key)

\* A report with two categories of equal weight * count.
C8_Witness ==
    /\ report # <<>>
    /\ Len(report[1].sections) = 2
    /\ report[1].sections[1].weight * report[1].sections[1].count
         = report[1].sections[2].weight * report[1].sections[2].count

\* C9: analyses leave the catalog as it was, and an analysis of a text returns
\* what the preceding analysis of the same text returned, whatever was
\* analysed in between.
C9_Deterministic ==
    /\ lastIndex = FreshLastIndex
    /\ (prevAnalysis # <<>> /\ analysis # <<>>) => analysis = prevAnalysis

\* A text with matches analysed, another text analysed, the text analysed again.
C9_Witness ==
    /\ calls = <<"text", "other", "text">>
    /\ prevAnalysis # <<>>
    /\ analysis = prevAnalysis
    /\ analysis[1].matches # <<>>

\* C10: of two results with the same wordCount >= 1, the one with the
\* greater or equal totalWeight has the greater or equal score.
C10_Monotone ==
    (prevScore # <<>> /\ score # <<>> /\ prevAnalysis # <<>> /\ analysis # <<>>
        /\ analysis[1].wordCount = prevAnalysis[1].wordCount
        /\ analysis[1].wordCount >= 1
        /\ analysis[1].totalWeight >= prevAnalysis[1].totalWeight)
        => /\ score[1].kind = "num" /\ prevScore[1].kind = "num"
           /\ score[1].n * prevScore[1].d >= prevScore[1].n * score[1].d

\* Two results of the same wordCount, the second with more weight and a
\* strictly greater score, both below the cap.
C10_Witness ==
    /\ prevScore # <<>> /\ score # <<>> /\ prevAnalysis # <<>> /\ analysis # <<>>
    /\ analysis[1].wordCount = prevAnalysis[1].wordCount
    /\ analysis[1].wordCount >= 1
    /\ analysis[1].totalWeight > prevAnalysis[1].totalWeight
    /\ prevScore[1].n < score[1].n
    /\ score[1].n < 100

RECURSIVE SumOfWeights(_, _)
\* The sum of weight * count over the entries k.. of a breakdown.
SumOfWeights(ps, k) ==
    IF k > Len(ps) THEN 0 ELSE ps[k].weight * ps[k].count + SumOfWeights(ps, k + 1)

RECURSIVE SumOfCounts(_, _)
\* The sum of the counts of the first k entries of a breakdown.
SumOfCounts(ps, k) ==
    IF k = 0 THEN 0 ELSE SumOfCounts(ps, k - 1) + ps[k].count

\* C11: totalWeight is the sum of weight * count over the categories of the
\* breakdown, a category's count is the length of its matches list, and the
\* flattened matches list is as long as the sum of the counts and is the
\* categories' matches one category after the other in catalog order, each
\* match with the name of its category.
C11_ResultAggregates ==
    analysis # <<>>
        => LET a == analysis[1]
               ps == a.patterns
           IN  /\ a.totalWeight = SumOfWeights(ps, 1)
               /\ \A k \in 1..Len(ps) :
                    /\ ps[k].count = Len(ps[k].matches)
                    /\ ps[k].weight = PATTERNS[CatalogIndex(ps[k].key)].weight
               /\ \A i, j \in 1..Len(ps) :
                    i < j => CatalogIndex(ps[i].key) < CatalogIndex(ps[j].key)
               /\ Len(a.matches) = SumOfCounts(ps, Len(ps))
               /\ \A k \in 1..Len(ps) : \A m \in 1..Len(ps[k].matches) :
                    LET flat == a.matches[SumOfCounts(ps, k - 1) + m]
                        own == ps[k].matches[m]
                    IN  /\ flat.text = own.text
                        /\ flat.index = own.index
                        /\ flat.context = own.context
                        /\ flat.category = PATTERNS[CatalogIndex(ps[k].key)].name

\* One promotional match and two AI vocabulary matches: a total weight of
\* 3 * 1 + 2 * 2 and a flattened list of three matches.
C11_Witness ==
    /\ analysis # <<>>
    /\ Len(analysis[1].patterns) = 2
    /\ analysis[1].patterns[1].count = 1
    /\ analysis[1].patterns[2].count = 2
    /\ analysis[1].totalWeight = 7
    /\ Len(analysis[1].matches) = 3
    /\ analysis[1].matches[1].category = "Promotional Language"
    /\ analysis[1].matches[3].category = "AI Vocabulary"

RECURSIVE IsOccurrence(_, _, _)
\* Position i starts one of the leftmost non-overlapping occurrences of the
\* rule in t: the rule matches there, and no occurrence that starts further
\* left reaches beyond i.
IsOccurrence(rule, t, i) ==
    /\ RuleMatchEnd(rule, t, i) # 0
    /\ \A j \in 1..(i - 1) : RuleMatchEnd(rule, t, j) > i => ~IsOccurrence(rule, t, j)

\* The spans <<index, length>> of the rule's occurrences in t, left to right.
RuleSpans(rule, t) ==
    LET starts == SelectSeq([i \in 1..Len(t) |-> i], LAMBDA i : IsOccurrence(rule, t, i))
    IN  [k \in 1..Len(starts) |->
            <<Offset(t, starts[k]),
              Offset(t, RuleMatchEnd(rule, t, starts[k])) - Offset(t, starts[k])>>]

RECURSIVE CategorySpans(_, _, _)
\* The spans of the rules r.. of category c, one rule after the other.
CategorySpans(c, t, r) ==
    IF r > Len(PATTERNS[c].patterns) THEN <<>>
    ELSE RuleSpans(PATTERNS[c].patterns[r], t) \o CategorySpans(c, t, r + 1)

\* The spans of the matches the result holds for category c.
FoundSpans(a, c) ==
    IF PATTERNS[c].key \in PresentKeys(a)
    THEN LET p == CHOOSE q \in {a.patterns[k] : k \in 1..Len(a.patterns)} :
                      q.key = PATTERNS[c].key
         IN  [k \in 1..Len(p.matches) |-> <<p.matches[k].index, TextLen(p.matches[k].text)>>]
    ELSE <<>>

\* The count the result holds for category c.
FoundCount(a, c) ==
    IF PATTERNS[c].key \in PresentKeys(a)
    THEN (CHOOSE q \in {a.patterns[k] : k \in 1..Len(a.patterns)} :
              q.key = PATTERNS[c].key).count
    ELSE 0

\* C12: a category's count is the sum over its rules, each taken on its own,
\* of the number of leftmost non-overlapping occurrences of the rule in the
\* text; the occurrences of one rule do not overlap, and a span that two rules
\* of the category match is counted for both.
C12_PerRuleCounts ==
    analysis # <<>>
        => \A c \in 1..Len(PATTERNS) :
              LET expected == CategorySpans(c, text, 1)
              IN  /\ FoundCount(analysis[1], c) = Len(expected)
                  /\ FoundSpans(analysis[1], c) = expected
                  /\ \A r \in 1..Len(PATTERNS[c].patterns) :
                        LET sp == RuleSpans(PATTERNS[c].patterns[r], text)
                        IN  \A x, y \in 1..Len(sp) :
                                x < y => sp[x][1] + sp[x][2] <= sp[y][1]

\* "intricate---": the word is counted for the rule intricat(e|es|ies) and
\* for the rule intricate, on the same span, and the three hyphens hold one
\* occurrence of --, not the two overlapping ones.
C12_Witness ==
    /\ analysis # <<>>
    /\ text = <<"intricate", "-", "-", "-">>
    /\ FoundSpans(analysis[1], 2) = <<<<0, 9>>, <<0, 9>>>>
    /\ FoundCount(analysis[1], 2) = 2
    /\ FoundSpans(analysis[1], 3) = <<<<9, 2>>>>
    /\ FoundCount(analysis[1], 3) = 1

-----------------------------------------------------------------------------
(* The command line process: main and getInput.  An argument is a text; a  *)
(* verb is the text of one word.  A promise that is resolved continues     *)
(* main before any other event is handled, so an action is an event's      *)
(* handler with the part of main that it resumes.                          *)

HelpVerbs == {<<"help">>, <<"-h">>, <<"--help">>}

AnalyzeVerbs == {<<"analyze">>, <<"a">>}

ScoreVerbs == {<<"score">>, <<"s">>}

JsonVerbs == {<<"json">>, <<"j">>}

\* The arguments an invocation is built from.
ArgValues == {<<"analyze">>, <<"score">>, <<"json">>, <<"help">>, <<"a">>, <<"delve">>}

ArgLists == UNION {[1..n -> ArgValues] : n \in 0..MaxArgs}

\* The file systems the process may run on: nothing named like an argument,
\* or a readable file named delve.
FileSystems ==
    { [files |-> <<>>],
      [files |-> (<<"delve">> :> <<"vibrant", Space, "a">>)] }

\* The chunks standard input delivers.
Chunks == {<<Space>>, <<"delve">>}

StdinPlans ==
    {[chunks |-> cs, ends |-> e] :
        cs \in UNION {[1..n -> Chunks] : n \in 0..MaxChunks}, e \in BOOLEAN}

RECURSIVE Join(_)
\* as.join(' ')
Join(as) ==
    IF as = <<>> THEN <<>>
    ELSE IF Len(as) = 1 THEN as[1]
    ELSE as[1] \o <<Space>> \o Join(Tail(as))

\* args[0] || 'analyze'
Command(as) == IF as # <<>> /\ as[1] # <<>> THEN as[1] ELSE <<"analyze">>

\* args.slice(1).join(' ')
Input(as) == IF as = <<>> THEN <<>> ELSE Join(Tail(as))

\* getInput(arg) up to its promise: the text it returns, or the wait for
\* standard input.
getInput(arg, fs) ==
    IF arg # <<>> /\ arg \in DOMAIN fs.files THEN [kind |-> "text", text |-> fs.files[arg]]
    ELSE IF arg # <<>> THEN [kind |-> "text", text |-> arg]
    ELSE [kind |-> "stdin", text |-> <<>>]

\* A test of the text that does not trim it.
NoTextUntrimmed(t) == t = <<>>

\* !text || text.trim().length === 0
NoText(t) == t = <<>> \/ IsBlank(t)

formatScore(a) ==
    LET s == calculateScore(a)
    IN  [kind |-> "score", score |-> s, label |-> getScoreLabel(s),
         wordCount |-> a.wordCount, patternsFound |-> Len(a.matches)]

formatJson(a) ==
    LET s == calculateScore(a)
    IN  [kind |-> "json", score |-> s, label |-> getScoreLabel(s),
         wordCount |-> a.wordCount, patternCount |-> Len(a.matches),
         patterns |-> a.patterns]

UsageError == <<"Usage: humanize <analyze|score|json> <file|text>",
                "       echo \"text\" | humanize analyze">>

\* main from `const text = await getInput(input)` resolved with t to its end.
AfterInput(t) ==
    /\ text' = t
    /\ IF NoText(t)
       THEN /\ stderr' = Append(stderr, "Error: No text provided")
            /\ exitCode' = <<1>>
            /\ pc' = "exited"
            /\ UNCHANGED <<analysis, lastIndex, stdout>>
       ELSE LET a == analyzeText(t, lastIndex)
                li == LastIndexAfterAnalysis(t, lastIndex)
                command == Command(args)
            IN  /\ analysis' = <<a>>
                /\ IF command \in AnalyzeVerbs
                   THEN /\ stdout' = Append(stdout, formatAnalysis(a))
                        /\ lastIndex' = li
                        /\ pc' = "done"
                        /\ UNCHANGED <<stderr, exitCode>>
                   ELSE IF command \in ScoreVerbs
                   THEN /\ stdout' = Append(stdout, formatScore(a))
                        /\ lastIndex' = li
                        /\ pc' = "done"
                        /\ UNCHANGED <<stderr, exitCode>>
                   ELSE IF command \in JsonVerbs
                   THEN /\ stdout' = Append(stdout, formatJson(a))
                        /\ lastIndex' = li
                        /\ pc' = "done"
                        /\ UNCHANGED <<stderr, exitCode>>
                   ELSE \* default: fullInput is not empty, getInput does not wait
                        LET got == getInput(Join(args), fsys)
                        IN  /\ stdout' = Append(stdout,
                                   formatAnalysis(analyzeText(got.text, li)))
                            /\ lastIndex' = LastIndexAfterAnalysis(got.text, li)
                            /\ pc' = "done"
                            /\ UNCHANGED <<stderr, exitCode>>

InitCli ==
    /\ args \in ArgLists
    /\ fsys \in FileSystems
    /\ stdinPlan \in StdinPlans
    /\ arrived = 0
    /\ ended = FALSE
    /\ data = <<>>
    /\ timer = "idle"
    /\ pc = "start"
    /\ stdout = <<>>
    /\ stderr = <<>>
    /\ exitCode = <<>>
    /\ text = <<>>
    /\ analysis = <<>>
    /\ prevAnalysis = <<>>
    /\ calls = <<>>
    /\ score = <<>>
    /\ prevScore = <<>>
    /\ label = ""
    /\ report = <<>>
    /\ lastIndex = FreshLastIndex

apiOnlyVars == <<prevAnalysis, calls, score, prevScore, label, report>>

\* main up to its first await, and beyond it when getInput does not wait.
MainStart ==
    /\ pc = "start"
    /\ UNCHANGED <<args, fsys, stdinPlan, arrived, ended, data, apiOnlyVars>>
    /\ IF Command(args) \in HelpVerbs
       THEN /\ stdout' = Append(stdout, [kind |-> "help"])
            /\ pc' = "done"
            /\ UNCHANGED <<text, analysis, lastIndex, timer, stderr, exitCode>>
       ELSE LET got == getInput(Input(args), fsys)
            IN  IF got.kind = "text"
                THEN /\ AfterInput(got.text)
                     /\ UNCHANGED timer
                ELSE \* the listeners of 'data' and 'end', and setTimeout(..., 100)
                     /\ timer' = "armed"
                     /\ pc' = "awaitStdin"
                     /\ UNCHANGED <<text, analysis, lastIndex, stdout, stderr, exitCode>>

\* process.stdin.on('data', chunk => data += chunk)
StdinData ==
    /\ pc = "awaitStdin"
    /\ ~ended
    /\ arrived < Len(stdinPlan.chunks)
    /\ data' = data \o stdinPlan.chunks[arrived + 1]
    /\ arrived' = arrived + 1
    /\ UNCHANGED <<args, fsys, stdinPlan, ended, timer, pc, stdout, stderr, exitCode, apiVars>>

\* process.stdin.on('end', () => resolve(data)), and main resumed with data
StdinEnd ==
    /\ pc = "awaitStdin"
    /\ ~ended
    /\ arrived = Len(stdinPlan.chunks)
    /\ stdinPlan.ends
    /\ ended' = TRUE
    /\ AfterInput(data)
    /\ UNCHANGED <<args, fsys, stdinPlan, arrived, data, timer, apiOnlyVars>>

\* A callback without the test of data.
TimerBodyAlways ==
    /\ stderr' = stderr \o UsageError
    /\ exitCode' = <<1>>
    /\ pc' = "exited"

\* setTimeout(() => { if (!data) { console.error(...); process.exit(1) } }, 100)
TimerBody ==
    IF data = <<>>
    THEN /\ stderr' = stderr \o UsageError
         /\ exitCode' = <<1>>
         /\ pc' = "exited"
    ELSE UNCHANGED <<stderr, exitCode, pc>>

TimerFires ==
    /\ timer = "armed"
    /\ pc \in {"awaitStdin", "done"}
    /\ exitCode = <<>>
    /\ timer' = "fired"
    /\ TimerBody
    /\ UNCHANGED <<args, fsys, stdinPlan, arrived, ended, data, stdout, apiVars>>

\* main has returned and nothing is pending: the process ends with code 0.
ProcessExit ==
    /\ pc = "done"
    /\ exitCode = <<>>
    /\ timer # "armed"
    /\ exitCode' = <<0>>
    /\ UNCHANGED <<args, fsys, stdinPlan, arrived, ended, data, timer, pc, stdout, stderr,
                   apiVars>>

NextCli ==
    \/ MainStart
    \/ StdinData
    \/ StdinEnd
    \/ TimerFires
    \/ ProcessExit

SpecCli == InitCli /\ [][NextCli]_vars

\* main's first part, as the step that takes pc away from "start".
MainStarts ==
    /\ pc = "start"
    /\ pc' \in {"awaitStdin", "done", "exited"}

\* The 'end' event, as the step that sets `ended`.
StdinEnds ==
    /\ pc = "awaitStdin"
    /\ ~ended
    /\ arrived = Len(stdinPlan.chunks)
    /\ stdinPlan.ends
    /\ ended' = TRUE

\* Node starts main, delivers what standard input holds, runs a due timer, and
\* ends a process that has nothing left to do.  The steps of SpecCli that
\* change pc from "start" are the MainStart steps, and those that change
\* `ended` are the StdinEnd steps.
FairSpecCli ==
    /\ SpecCli
    /\ WF_pc(MainStarts)
    /\ WF_vars(StdinData)
    /\ WF_ended(StdinEnds)
    /\ WF_vars(TimerFires)
    /\ WF_vars(ProcessExit)

-----------------------------------------------------------------------------
(* Properties of the command line process.                                 *)

Verbs == HelpVerbs \cup AnalyzeVerbs \cup ScoreVerbs \cup JsonVerbs

\* C6: when the first argument is not a recognized verb, the process prints
\* the detailed report of the arguments joined by spaces, and does not end
\* with a usage error, whatever the arguments and standard input are.
C6_UnknownVerbIsText ==
    (args # <<>> /\ args[1] \notin Verbs /\ exitCode # <<>>)
        => /\ exitCode = <<0>>
           /\ stderr = <<>>
           /\ stdout = <<formatAnalysis(analyzeText(Join(args), FreshLastIndex))>>

\* An analysis verb, no text argument, and a standard input that delivers no
\* chunk at all or ends after whitespace only.
NoInputSupplied ==
    /\ Command(args) \in AnalyzeVerbs \cup ScoreVerbs \cup JsonVerbs
    /\ Input(args) = <<>>
    /\ \A k \in 1..Len(stdinPlan.chunks) : IsBlank(stdinPlan.chunks[k])
    /\ stdinPlan.chunks = <<>> \/ stdinPlan.ends

\* C7: an analysis verb with no text argument and no non-whitespace data on
\* standard input always leads to a diagnostic on standard error and exit
\* code 1, and nothing is ever printed on standard output.
C7_NoInputIsError ==
    /\ [](NoInputSupplied => stdout = <<>>)
    /\ NoInputSupplied ~> (exitCode = <<1>> /\ stderr # <<>>)

\* Standard input stayed silent and the timeout ended the process.
C7_Witness ==
    /\ NoInputSupplied
    /\ timer = "fired"
    /\ data = <<>>
    /\ stderr = UsageError
    /\ exitCode = <<1>>

RECURSIVE Concat(_, _)
\* The first n chunks one after the other.
Concat(cs, n) == IF n = 0 THEN <<>> ELSE Concat(cs, n - 1) \o cs[n]

\* main waits, or has waited, for standard input.
ReadsStdin ==
    /\ pc # "start"
    /\ Command(args) \notin HelpVerbs
    /\ Input(args) = <<>>

\* The usage error is on standard error.
UsageErrorWritten == \E k \in 1..Len(stderr) : stderr[k] = UsageError[1]

\* C13: when the text is read from standard input, whatever the order of the
\* 'data' events, the 'end' event and the timer: data is the chunks received,
\* in the order they arrived; a timer that fires after a chunk has arrived
\* changes nothing, so the usage error is written only while no data has been
\* received; and the text handed to the analysis is the concatenation of all
\* the chunks, handed over after 'end' only.
C13_StdinInterleavings ==
    ReadsStdin
        => /\ data = Concat(stdinPlan.chunks, arrived)
           /\ UsageErrorWritten
                => (timer = "fired" /\ arrived = 0 /\ data = <<>> /\ ~ended /\ analysis = <<>>)
           /\ (timer = "fired" /\ data # <<>> /\ exitCode = <<1>>)
                => (ended /\ stderr = <<"Error: No text provided">>)
           /\ (analysis # <<>> \/ text # <<>>)
                => /\ ended
                   /\ arrived = Len(stdinPlan.chunks)
                   /\ text = Concat(stdinPlan.chunks, Len(stdinPlan.chunks))
                   /\ analysis # <<>> => analysis[1] = analyzeText(text, FreshLastIndex)

\* Two chunks have arrived, the timer has fired without effect, 'end' has
\* come, and the two chunks in their order of arrival were analysed.
C13_Witness ==
    /\ ReadsStdin
    /\ stdinPlan.chunks = <<<<"delve">>, <<Space>>>>
    /\ timer = "fired"
    /\ ended
    /\ text = <<"delve", Space>>
    /\ analysis # <<>>
    /\ analysis[1].wordCount = 1
    /\ stdout # <<>>
    /\ stderr = <<>>

=============================================================================
